---- MODULE Spec2Model ----
(***************************************************************************)
(* Model of the ladder engine of gold_bot_quick.py (class StrategyEngine)  *)
(* and of the controller run_bot_loop that drives it.                      *)
(* Prices and lots are integers counted in thousandths (3300.00 is         *)
(* 3300000, lot 0.01 is 10), so that Python's round(x, 2) is a real        *)
(* function of the model and not the identity.                             *)
(***************************************************************************)
EXTENDS Integers, Sequences, FiniteSets, TLC

\* ---------------- CONFIG (gold_bot_quick.py lines 22-33) ----------------
BaseLot == 10
Gap == 3000
TpPoints == 5000
MaxSteps == 6

\* base_price=None of StrategyEngine.__init__
None == -1

\* ---------------- inputs ----------------
\* Start prices are on the 0.01 grid: run_bot_loop rounds the market price
\* to two decimals and otherwise uses 3300.0.
NumBasePrices == 2
BasePrices == {3300000 + 2000 * k : k \in 0..(NumBasePrices - 1)}

\* Tick prices: the trigger and take-profit levels of every start price and
\* one mid price off the 0.01 grid (a live mid price (ask + bid) / 2).
TickPrices ==
    UNION {{b - Gap - TpPoints, b - Gap, b, b + TpPoints} : b \in BasePrices}
        \cup {3298505}

\* Non-finite floats a caller can pass as a tick price.  The infinities are
\* numbers beyond every price; NaN is a value apart, whose comparisons are
\* all false.
NaN == -999
PosInf == 2000000000
NegInf == -2000000000
NonFinite == {NaN, PosInf, NegInf}

\* What mt5_get_price returns in run_bot_loop: a mid price, on or off the
\* 0.01 grid, or None.
LivePrices == {3300000, 3297000, 3300007, 3298503}

\* Steps of simulate_next_price, a sample of uniform(-2.0, 2.0), and how far
\* (in whole price units) the model lets the walk drift from its start.
SimSteps == {-2000, -1000, 1000, 2000}
MaxDrift == 5

\* What the broker call made inside a tick does when use_mt5 is set:
\* it succeeds, it fails quietly (mt5 not ready, order rejected), or it
\* raises (mt5 not imported, symbol_info_tick returned None).
GatewayOutcomes == {"ok", "fail", "raise"}

VARIABLES
    base_price,        \* self.base_price
    current_step,      \* self.current_step
    current_lot,       \* self.current_lot
    pending_side,      \* self.pending_side
    active_positions,  \* self.active_positions, in opening order
    pending_orders,    \* self.pending_orders
    op,                \* the last operation called on the engine
    ev,                \* what the last check_events call returned
    arg,               \* the price passed to the last operation
    mt5arg,            \* the use_mt5 argument of the last check_events call
    fills,             \* "filled" results since the last start_cycle
    pre,               \* the engine as it was when the last operation began
    pc,                \* who drives the engine: a direct caller ("api") or
                       \* run_bot_loop, and where run_bot_loop stands
    use_mt5_mode,      \* use_mt5_mode of run_bot_loop
    sim_price          \* sim_price of run_bot_loop

vars == <<base_price, current_step, current_lot, pending_side,
          active_positions, pending_orders, op, ev, arg, mt5arg, fills, pre,
          pc, use_mt5_mode, sim_price>>

\* The engine object as one record.
Engine ==
    [base_price |-> base_price, current_step |-> current_step,
     current_lot |-> current_lot, pending_side |-> pending_side,
     active_positions |-> active_positions, pending_orders |-> pending_orders]

\* Python round(x, 2) on thousandths.  A tie (last digit 5) follows the binary
\* double in Python; no value the model rounds is a tie.
Round2(x) ==
    LET q == x \div 10
        r == x % 10
    IN  IF r < 5 THEN q * 10
        ELSE IF r > 5 THEN (q + 1) * 10
        ELSE IF q % 2 = 0 THEN q * 10 ELSE (q + 1) * 10

RemoveAt(s, i) == SubSeq(s, 1, i - 1) \o SubSeq(s, i + 1, Len(s))

\* ---------------- StrategyEngine ----------------
\* reset that forgets to empty the two lists
resetKeepsLists(e) ==
    [e EXCEPT !.current_step = 0,
              !.current_lot = BaseLot,
              !.pending_side = "buy"]

reset(e) ==
    [e EXCEPT !.current_step = 0,
              !.current_lot = BaseLot,
              !.pending_side = "buy",
              !.active_positions = <<>>,
              !.pending_orders = <<>>]

\* the record written over the list instead of appended to it
place_trade_simOverwrites(e, side, entry, lot, tp) ==
    [e EXCEPT !.active_positions =
        <<[side |-> side, entry |-> entry, lot |-> lot, tp |-> tp]>>]

place_trade_sim(e, side, entry, lot, tp) ==
    [e EXCEPT !.active_positions =
        Append(@, [side |-> side, entry |-> entry, lot |-> lot, tp |-> tp])]

\* a live order that is also recorded in the engine
place_trade_mt5Records(e, side, price, lot, tp) ==
    [e EXCEPT !.active_positions =
        Append(@, [side |-> side, entry |-> price, lot |-> lot, tp |-> tp])]

\* The broker order is sent (or not); the engine records nothing.
place_trade_mt5(e, side, price, lot, tp) == e

InitialSellLot(e) == Round2(e.current_lot * 2)

\* self.current_step = 1 of place_initial_buy
InitialStep == 1

place_initial_buy(e) ==
    LET entry == e.base_price
        tp == Round2(entry + TpPoints)
        e1 == place_trade_sim(e, "buy", entry, e.current_lot, tp)
        sell_price == Round2(e.base_price - Gap)
        sell_lot == InitialSellLot(e)
        sell_tp == Round2(sell_price - TpPoints)
    IN  [e1 EXCEPT !.pending_orders =
                       Append(@, [type |-> "sell_stop", price |-> sell_price,
                                  lot |-> sell_lot, tp |-> sell_tp, step |-> 1]),
                   !.current_step = InitialStep,
                   !.pending_side = "sell"]

start_cycle_result(e, start_price) ==
    place_initial_buy([reset(e) EXCEPT !.base_price = start_price])

\* close_all_and_reset that empties the lists and forgets self.reset()
closeAllNoReset(e) ==
    [e EXCEPT !.active_positions = <<>>, !.pending_orders = <<>>]

close_all_and_reset(e) ==
    reset([e EXCEPT !.active_positions = <<>>, !.pending_orders = <<>>])

\* ---------------- check_events, rule by rule ----------------
\* float comparison that forgets NaN
PriceLePlain(x, y) == x <= y

\* Python x <= y and x >= y on floats: false when x is NaN.
PriceLe(x, y) == x # NaN /\ x <= y

PriceGe(x, y) == x # NaN /\ x >= y

\* take-profit compared with > and < instead of >= and <=
TpFiresStrict(pos, price) ==
    \/ pos.side = "buy" /\ price # NaN /\ price > pos.tp
    \/ pos.side = "sell" /\ price # NaN /\ price < pos.tp

TpFires(pos, price) ==
    \/ pos.side = "buy" /\ PriceGe(price, pos.tp)
    \/ pos.side = "sell" /\ PriceLe(price, pos.tp)

TpHit(e, price) ==
    \E i \in DOMAIN e.active_positions : TpFires(e.active_positions[i], price)

Triggered(p, price) ==
    \/ p.type = "sell_stop" /\ PriceLe(price, p.price)
    \/ p.type = "buy_stop" /\ PriceGe(price, p.price)

Fillable(e, price) ==
    \E i \in DOMAIN e.pending_orders : Triggered(e.pending_orders[i], price)

\* The first order of the list the loop finds triggered.
FirstTriggered(e, price) ==
    CHOOSE i \in DOMAIN e.pending_orders :
        /\ Triggered(e.pending_orders[i], price)
        /\ \A j \in 1..(i - 1) : ~Triggered(e.pending_orders[j], price)

NextLot(p) == Round2(BaseLot * (2 ^ p.step))

\* the cap compared with < instead of <=
MayEnqueueStrict(step) == step + 1 < MaxSteps

\* the cap left out
MayEnqueueNoCap(step) == TRUE

MayEnqueue(step) == step + 1 <= MaxSteps

\* the safety stop one step late
StepLimitLate(step) == step > MaxSteps + 1

\* the safety stop with the comparison turned round
StepLimitInverted(step) == step < MaxSteps

StepLimit(step) == step > MaxSteps

\* a fill that forgets to advance the counter
StepAfterFillSame(step) == step

\* self.current_step += 1
StepAfterFill(step) == step + 1

FilledSide(p) == IF p.type = "sell_stop" THEN "sell" ELSE "buy"

\* the next buy_stop given the take-profit of a sell
NextPendingTpSign(e, p) ==
    IF p.type = "sell_stop"
    THEN LET next_price == Round2(e.base_price)
         IN  [type |-> "buy_stop", price |-> next_price, lot |-> NextLot(p),
              tp |-> Round2(next_price - TpPoints), step |-> p.step + 1]
    ELSE LET next_price == Round2(e.base_price - Gap)
         IN  [type |-> "sell_stop", price |-> next_price, lot |-> NextLot(p),
              tp |-> Round2(next_price - TpPoints), step |-> p.step + 1]

\* The order enqueued behind a filled order p.
NextPending(e, p) ==
    IF p.type = "sell_stop"
    THEN LET next_price == Round2(e.base_price)
         IN  [type |-> "buy_stop", price |-> next_price, lot |-> NextLot(p),
              tp |-> Round2(next_price + TpPoints), step |-> p.step + 1]
    ELSE LET next_price == Round2(e.base_price - Gap)
         IN  [type |-> "sell_stop", price |-> next_price, lot |-> NextLot(p),
              tp |-> Round2(next_price - TpPoints), step |-> p.step + 1]

\* One pending order fills.
fill(e, price, use_mt5) ==
    LET i == FirstTriggered(e, price)
        p == e.pending_orders[i]
        e1 == IF ~use_mt5
              THEN place_trade_sim(e, FilledSide(p), p.price, p.lot, p.tp)
              ELSE place_trade_mt5(e, FilledSide(p), p.price, p.lot, p.tp)
        rest == RemoveAt(e1.pending_orders, i)
    IN  [e1 EXCEPT !.pending_orders =
                       IF MayEnqueue(e.current_step)
                       THEN Append(rest, NextPending(e, p))
                       ELSE rest,
                   !.current_step = StepAfterFill(@)]

\* the fill check placed before the take-profit check
RuleFillFirst(tp, fillable, limit) ==
    IF fillable THEN "filled"
    ELSE IF tp THEN "tp_hit"
    ELSE IF limit THEN "stopped"
    ELSE "none"

\* Which rule of check_events fires: the first that matches, in the order
\* of the code.
Rule(tp, fillable, limit) ==
    IF tp THEN "tp_hit"
    ELSE IF fillable THEN "filled"
    ELSE IF limit THEN "stopped"
    ELSE "none"

\* The result of check_events: what it returns and the engine it leaves.
\* A broker call that raises ends the call where it stands: in all three
\* rules that is before the engine was touched.
check_events_result(e, price, use_mt5, gw) ==
    LET rule == Rule(TpHit(e, price), Fillable(e, price), StepLimit(e.current_step))
    IN  IF rule = "none" THEN [ev |-> "none", e |-> e]
        ELSE IF use_mt5 /\ gw = "raise" THEN [ev |-> "exception", e |-> e]
        ELSE IF rule = "filled" THEN [ev |-> "filled", e |-> fill(e, price, use_mt5)]
        ELSE [ev |-> rule, e |-> close_all_and_reset(e)]

\* ---------------- the state machine ----------------
SetEngine(e) ==
    /\ base_price' = e.base_price
    /\ current_step' = e.current_step
    /\ current_lot' = e.current_lot
    /\ pending_side' = e.pending_side
    /\ active_positions' = e.active_positions
    /\ pending_orders' = e.pending_orders

Snapshot == [e |-> Engine, fills |-> fills]

\* StrategyEngine(base_price): nothing is open, nothing is pending.
new_engine(bp) ==
    reset([base_price |-> bp, current_step |-> 0, current_lot |-> BaseLot,
           pending_side |-> "buy", active_positions |-> <<>>,
           pending_orders |-> <<>>])

\* The engine is driven either by a direct caller of its methods or by
\* run_bot_loop, which builds its own engine.
Init ==
    /\ pc \in {"api", "start"}
    /\ base_price \in (IF pc = "api" THEN BasePrices \cup {None} ELSE {None})
    /\ current_step = 0
    /\ current_lot = BaseLot
    /\ pending_side = "buy"
    /\ active_positions = <<>>
    /\ pending_orders = <<>>
    /\ op = "init"
    /\ ev = "none"
    /\ arg = None
    /\ mt5arg = FALSE
    /\ fills = 0
    /\ pre = [e |-> new_engine(base_price), fills |-> 0]
    /\ use_mt5_mode = FALSE
    /\ sim_price = None

start_cycle(start_price) ==
    /\ pc = "api"
    /\ SetEngine(start_cycle_result(Engine, start_price))
    /\ op' = "start_cycle"
    /\ ev' = "none"
    /\ arg' = start_price
    /\ mt5arg' = FALSE
    /\ fills' = 0
    /\ pre' = Snapshot
    /\ UNCHANGED <<pc, use_mt5_mode, sim_price>>

\* One call of check_events and what the caller sees of it.
Call(current_price, use_mt5, gw) ==
    LET r == check_events_result(Engine, current_price, use_mt5, gw)
    IN  /\ SetEngine(r.e)
        /\ op' = "check_events"
        /\ ev' = r.ev
        /\ arg' = current_price
        /\ mt5arg' = use_mt5
        /\ fills' = IF r.ev = "filled" THEN fills + 1 ELSE fills
        /\ pre' = Snapshot

check_events(current_price, use_mt5, gw) ==
    /\ pc = "api"
    /\ Call(current_price, use_mt5, gw)
    /\ UNCHANGED <<pc, use_mt5_mode, sim_price>>

\* ---------------- run_bot_loop ----------------
\* start price of the simulation when CONFIG["base_price"] is None
DefaultStart == 3300000

\* The live start of run_bot_loop: the market buy goes to the broker and the
\* first sell_stop is written into the engine by hand.
live_initial(e, entry_price) ==
    [e EXCEPT !.active_positions = <<>>,
              !.pending_orders =
                  <<[type |-> "sell_stop", price |-> Round2(entry_price - Gap),
                     lot |-> Round2(e.current_lot * 2),
                     tp |-> Round2(entry_price - Gap - TpPoints), step |-> 1]>>,
              !.current_step = 1,
              !.pending_side = "sell",
              !.current_lot = @ * 2]

\* run_bot_loop up to its main loop.  live: mt5_init() succeeded and
\* force_sim is off; cfg_base: CONFIG["base_price"]; cur, entry_price: the
\* two market prices read; gw: what the initial broker order does.
run_bot_loop_start(live, cfg_base, cur, entry_price, gw) ==
    /\ pc = "start"
    /\ op' = "run_bot_loop"
    /\ ev' = "none"
    /\ fills' = 0
    /\ pre' = Snapshot
    /\ IF live /\ cur = None
       THEN \* falls back to simulation with start_price never assigned:
            \* StrategyEngine(start_price) raises
            /\ pc' = "crashed"
            /\ use_mt5_mode' = FALSE
            /\ arg' = None
            /\ mt5arg' = FALSE
            /\ UNCHANGED <<base_price, current_step, current_lot, pending_side,
                           active_positions, pending_orders, sim_price>>
       ELSE LET start_price ==
                    IF live
                    THEN IF cfg_base = None THEN Round2(cur) ELSE cfg_base
                    ELSE IF cfg_base # None THEN cfg_base ELSE DefaultStart
                e0 == new_engine(start_price)
            IN  /\ use_mt5_mode' = live
                /\ arg' = start_price
                /\ mt5arg' = live
                /\ IF ~live THEN
                       /\ SetEngine(e0)
                       /\ pc' = "loop"
                       /\ sim_price' = start_price
                   ELSE IF entry_price = None THEN
                       /\ SetEngine([e0 EXCEPT !.active_positions = <<>>])
                       /\ pc' = "loop"
                       /\ sim_price' = start_price
                   ELSE IF gw = "raise" THEN
                       /\ SetEngine([e0 EXCEPT !.active_positions = <<>>])
                       /\ pc' = "crashed"
                       /\ UNCHANGED sim_price
                   ELSE
                       /\ SetEngine(live_initial(e0, entry_price))
                       /\ pc' = "loop"
                       /\ sim_price' = start_price

\* simulate_next_price, kept within MaxDrift of the start price
SimNext(current) ==
    {Round2(current + d) : d \in SimSteps} \cap
        ((base_price - MaxDrift * 1000)..(base_price + MaxDrift * 1000))

\* One turn of the main loop: read or simulate a price, call check_events,
\* leave the loop on tp_hit or stopped.  A raise of check_events ends the
\* program.
\* the loop leaving on tp_hit only
LoopExitTpOnly(event) ==
    IF event = "tp_hit" THEN "ended"
    ELSE IF event = "exception" THEN "crashed"
    ELSE "loop"

LoopExit(event) ==
    IF event \in {"tp_hit", "stopped"} THEN "ended"
    ELSE IF event = "exception" THEN "crashed"
    ELSE "loop"

run_bot_loop_tick ==
    /\ pc = "loop"
    /\ IF use_mt5_mode
       THEN \E cur_price \in TickPrices \cup LivePrices \cup {None},
               gw \in GatewayOutcomes :
                IF cur_price = None
                THEN UNCHANGED vars
                ELSE /\ Call(cur_price, TRUE, gw)
                     /\ pc' = LoopExit(ev')
                     /\ UNCHANGED <<use_mt5_mode, sim_price>>
       ELSE \E cur_price \in SimNext(sim_price) :
                /\ sim_price' = cur_price
                /\ Call(cur_price, FALSE, "ok")
                /\ pc' = LoopExit(ev')
                /\ UNCHANGED use_mt5_mode

Next ==
    \/ \E start_price \in BasePrices : start_cycle(start_price)
    \/ \E current_price \in TickPrices \cup NonFinite, use_mt5 \in BOOLEAN,
          gw \in GatewayOutcomes :
           check_events(current_price, use_mt5, gw)
    \/ \E live \in BOOLEAN, cfg_base \in BasePrices \cup {None},
          cur \in LivePrices \cup {None}, entry_price \in LivePrices \cup {None},
          gw \in GatewayOutcomes :
           run_bot_loop_start(live, cfg_base, cur, entry_price, gw)
    \/ run_bot_loop_tick

Spec == Init /\ [][Next]_vars

TypeOK ==
    /\ current_step \in 0..(MaxSteps + 1)
    /\ Len(pending_orders) <= 1
    /\ op \in {"init", "start_cycle", "check_events", "run_bot_loop"}
    /\ ev \in {"none", "tp_hit", "filled", "stopped", "exception"}
    /\ pc \in {"api", "start", "loop", "ended", "crashed"}

\* ======================= properties =======================
PreE == pre.e
Checked == op = "check_events"
Returned == Checked /\ ev # "exception"
Cleared == active_positions = <<>> /\ pending_orders = <<>> /\ current_step = 0

\* Some position open before the call had its take-profit crossed by the tick.
PreTpCrossed ==
    \E i \in DOMAIN PreE.active_positions :
        LET pos == PreE.active_positions[i]
        IN  \/ pos.side = "buy" /\ arg # NaN /\ arg >= pos.tp
            \/ pos.side = "sell" /\ arg # NaN /\ arg <= pos.tp

\* The number of positions open before the call whose take-profit was crossed.
PreTpCount ==
    Cardinality({i \in DOMAIN PreE.active_positions :
        LET pos == PreE.active_positions[i]
        IN  \/ pos.side = "buy" /\ arg # NaN /\ arg >= pos.tp
            \/ pos.side = "sell" /\ arg # NaN /\ arg <= pos.tp})

\* The order pending before the call had its trigger crossed by the tick.
PreTriggerCrossed ==
    \E i \in DOMAIN PreE.pending_orders :
        LET p == PreE.pending_orders[i]
        IN  \/ p.type = "sell_stop" /\ arg # NaN /\ arg <= p.price
            \/ p.type = "buy_stop" /\ arg # NaN /\ arg >= p.price

C2_StrictPriority ==
    Returned =>
        IF PreTpCrossed
        THEN ev = "tp_hit" /\ active_positions = <<>> /\ pending_orders = <<>>
        ELSE IF PreTriggerCrossed
        THEN /\ ev = "filled"
             /\ fills = pre.fills + 1
             /\ current_step = PreE.current_step + 1
             /\ Len(active_positions) >= Len(PreE.active_positions)
             /\ Len(active_positions) <= Len(PreE.active_positions) + 1
             /\ \A i \in DOMAIN pending_orders :
                    pending_orders[i].step = PreE.pending_orders[1].step + 1
        ELSE IF PreE.current_step > MaxSteps
        THEN ev = "stopped" /\ Cleared
        ELSE ev = "none" /\ Engine = PreE

\* A tick that crossed both a take-profit and the pending trigger.
C2_Witness ==
    /\ Returned
    /\ PreTpCrossed
    /\ PreTriggerCrossed
    /\ ev = "tp_hit"

\* C3: whenever check_events returns tp_hit, for any number of positions
\* and any number of them hitting their take-profit at once, the engine is
\* left with no position, no pending order and step 0, and the call returned
\* that one event because a take-profit was crossed.
C3_TpHitClearsAll ==
    (Checked /\ ev = "tp_hit") => (PreTpCrossed /\ Cleared)

\* tp_hit on a tick that crossed the take-profit of two positions at once,
\* with an order pending.
C3_Witness ==
    /\ Checked
    /\ ev = "tp_hit"
    /\ PreTpCount >= 2
    /\ Len(PreE.active_positions) >= 3
    /\ PreE.pending_orders # <<>>
    /\ Cleared

\* C4: in a cycle started by start_cycle the pending order with step n, and
\* the position opened at rung n, have lot baseLot * 2^n for n in
\* 0..maxSteps; consecutive rungs double.  (Positions are compared when
\* every fill of the cycle was recorded, so that the n-th position is
\* rung n.)
C4_LotsDouble ==
    /\ \A i \in DOMAIN pending_orders :
           pending_orders[i].lot = BaseLot * (2 ^ pending_orders[i].step)
    /\ Len(active_positions) = fills + 1 =>
           \A i \in DOMAIN active_positions :
               active_positions[i].lot = BaseLot * (2 ^ (i - 1))

\* C5: a check_events call that returns filled, with either value of
\* use_mt5, removes the pending order, appends exactly one position with
\* the side of the order's kind, the order's trigger price as entry and the
\* order's lot and tp, and adds exactly 1 to the step counter.
C5_FillAppendsPosition ==
    (Checked /\ ev = "filled") =>
        LET p == PreE.pending_orders[1]
        IN  /\ \A i \in DOMAIN pending_orders : pending_orders[i] # p
            /\ active_positions =
                   Append(PreE.active_positions,
                          [side |-> IF p.type = "sell_stop" THEN "sell" ELSE "buy",
                           entry |-> p.price, lot |-> p.lot, tp |-> p.tp])
            /\ current_step = PreE.current_step + 1

\* C6: the positions in opening order have sides buy, sell, buy, sell, ...
\* and the pending order, if any, has the kind opposite to the side of the
\* most recently opened position.
C6_SidesAlternate ==
    /\ \A i \in DOMAIN active_positions :
           active_positions[i].side = IF i % 2 = 1 THEN "buy" ELSE "sell"
    /\ (active_positions # <<>> /\ pending_orders # <<>>) =>
           pending_orders[1].type =
               IF active_positions[Len(active_positions)].side = "buy"
               THEN "sell_stop" ELSE "buy_stop"

\* C7: the engine never holds more than one pending order, and right after
\* a fill it holds none exactly when step + 1 > maxSteps, step being the
\* counter just before the fill incremented it.
C7_OnePending ==
    /\ Len(pending_orders) <= 1
    /\ (Checked /\ ev = "filled") =>
           (pending_orders = <<>> <=> PreE.current_step + 1 > MaxSteps)

\* The last fill of a full ladder: the counter stood at maxSteps, one order
\* was pending, and the fill enqueued nothing.
C7_Witness ==
    /\ Checked
    /\ ev = "filled"
    /\ pending_orders = <<>>
    /\ PreE.current_step = MaxSteps
    /\ Len(PreE.pending_orders) = 1

\* C8: between a start_cycle and the next terminal event at most
\* maxSteps + 1 ticks return filled; the open positions never number more
\* than maxSteps + 2 and no pending order has a step above maxSteps + 1.
C8_FillsBounded ==
    /\ fills <= MaxSteps + 1
    /\ Len(active_positions) <= MaxSteps + 2
    /\ \A i \in DOMAIN pending_orders : pending_orders[i].step <= MaxSteps + 1

\* A cycle in which every rung was filled and recorded.
C8_Witness ==
    /\ Checked
    /\ ev = "filled"
    /\ fills = MaxSteps
    /\ Len(active_positions) = MaxSteps + 1
    /\ pending_orders = <<>>

\* C9: after maxSteps fills without a take-profit no pending order remains,
\* and the next tick that crosses no take-profit returns stopped and leaves
\* no position, no pending order and step 0.  An engine with open positions
\* and no pending order always has step > maxSteps, and a tick on it that
\* returns returns tp_hit or stopped, never none.
C9_LadderEndsInStop ==
    /\ (fills = MaxSteps /\ current_step > 0) => pending_orders = <<>>
    /\ (active_positions # <<>> /\ pending_orders = <<>>) => current_step > MaxSteps
    /\ (Returned /\ pre.fills = MaxSteps /\ PreE.current_step > 0 /\ ~PreTpCrossed) =>
           (ev = "stopped" /\ Cleared)
    /\ (Returned /\ PreE.active_positions # <<>> /\ PreE.pending_orders = <<>>) =>
           ev \in {"tp_hit", "stopped"}

\* The tick after the last fill of a full ladder, crossing no take-profit.
C9_Witness ==
    /\ Checked
    /\ ev = "stopped"
    /\ pre.fills = MaxSteps
    /\ Len(PreE.active_positions) = MaxSteps + 1
    /\ PreE.pending_orders = <<>>
    /\ ~PreTpCrossed
    /\ Cleared

\* No cycle is active: a fresh engine, or one reset by tp_hit or stopped.
NoActiveCycle(e) ==
    e.active_positions = <<>> /\ e.pending_orders = <<>> /\ e.current_step = 0

\* C10 as stated: check_events on an engine with no active cycle signals
\* InvalidState and leaves the engine unchanged.
C10_InvalidState ==
    (Checked /\ NoActiveCycle(PreE)) => (ev = "InvalidState" /\ Engine = PreE)

\* C10 as amended: check_events on an engine with no active cycle returns
\* none (no event, no error) and leaves the engine unchanged.
C10_NoCycleReturnsNone ==
    (Checked /\ NoActiveCycle(PreE)) => (ev = "none" /\ Engine = PreE)

\* A tick on an engine whose cycle was closed, by the live path too.
C10_Witness ==
    /\ Checked
    /\ NoActiveCycle(PreE)
    /\ PreE.base_price # None
    /\ pre.fills > 0
    /\ mt5arg
    /\ ev = "none"

\* A cycle holds something: a position or a pending order.
Holding == active_positions # <<>> \/ pending_orders # <<>>

\* C11 as stated: in an active cycle the step counter equals the number of
\* fills since the cycle started, and it is 0 right after start_cycle.
C11_StepCountsFills ==
    /\ op = "start_cycle" => current_step = 0
    /\ Holding => current_step = fills

\* C11 as amended: in an active cycle the step counter equals 1 plus the
\* number of fills since the cycle started, and it is 1 right after
\* start_cycle.
C11_StepIsFillsPlusOne ==
    /\ op = "start_cycle" => current_step = 1
    /\ Holding => current_step = fills + 1

\* The third fill of a cycle begun by start_cycle.
C11_Witness ==
    /\ pc = "api"
    /\ Checked
    /\ ev = "filled"
    /\ fills = 3
    /\ Len(active_positions) >= 2
    /\ pending_orders # <<>>

\* C12: across check_events calls the step counter never decreases and no
\* position disappears, except in a call that returns tp_hit or stopped;
\* the engine goes to no positions, no pending order and step 0 only in a
\* call that returns tp_hit or stopped.
C12_ResetOnlyOnTerminal ==
    /\ (Checked /\ ev \notin {"tp_hit", "stopped"}) =>
           /\ current_step >= PreE.current_step
           /\ Len(active_positions) >= Len(PreE.active_positions)
           /\ SubSeq(active_positions, 1, Len(PreE.active_positions))
                  = PreE.active_positions
    /\ (Checked /\ Cleared /\ ~NoActiveCycle(PreE)) =>
           ev \in {"tp_hit", "stopped"}

\* A fill on top of two open positions: the step and the positions grow.
C12_Witness ==
    /\ Checked
    /\ ev = "filled"
    /\ Len(PreE.active_positions) >= 2
    /\ Len(active_positions) = Len(PreE.active_positions) + 1
    /\ current_step = PreE.current_step + 1

\* C13: a check_events call that returns none (no take-profit crossed,
\* trigger not crossed, step <= maxSteps) leaves basePrice, step, positions
\* and pending order as they were.
C13_NoneChangesNothing ==
    (Checked /\ ev = "none") =>
        /\ ~PreTpCrossed
        /\ ~PreTriggerCrossed
        /\ PreE.current_step <= MaxSteps
        /\ base_price = PreE.base_price
        /\ current_step = PreE.current_step
        /\ active_positions = PreE.active_positions
        /\ pending_orders = PreE.pending_orders

\* A tick between the levels of a cycle with two positions and an order.
C13_Witness ==
    /\ Checked
    /\ ev = "none"
    /\ Len(active_positions) >= 2
    /\ pending_orders # <<>>
    /\ arg \notin NonFinite

\* The tick matched one of the three rules of check_events.
PreRuleMatched ==
    PreTpCrossed \/ PreTriggerCrossed \/ PreE.current_step > MaxSteps

\* C14: in live mode (use_mt5 set) the engine after a tick that triggers a
\* take-profit, a fill or a step-limit stop is in the committed state of
\* that transition whether the broker call of the tick succeeded or failed:
\* never the state before the transition, never a partial update.
C14_GatewayFailureCommits ==
    (Checked /\ mt5arg /\ PreRuleMatched) =>
        IF PreTpCrossed THEN Cleared
        ELSE IF PreTriggerCrossed
        THEN /\ current_step = PreE.current_step + 1
             /\ \A i \in DOMAIN pending_orders :
                    pending_orders[i] # PreE.pending_orders[1]
        ELSE Cleared

\* A position of the given side was open before the call.
PreHasSide(side) ==
    \E i \in DOMAIN PreE.active_positions : PreE.active_positions[i].side = side

\* An order of the given kind was pending before the call.
PrePendingKind(kind) ==
    \E i \in DOMAIN PreE.pending_orders : PreE.pending_orders[i].type = kind

\* What a call returns on a price beyond every level on the side of the
\* given position side and order kind.
BeyondAll(side, kind) ==
    IF PreHasSide(side) THEN ev = "tp_hit" /\ Cleared
    ELSE IF PrePendingKind(kind) THEN ev = "filled"
    ELSE IF PreE.current_step > MaxSteps THEN ev = "stopped" /\ Cleared
    ELSE ev = "none" /\ Engine = PreE

\* C15 as stated: a tick whose price is NaN, +infinity or -infinity is
\* rejected with InvalidPrice and leaves the engine unchanged, in every
\* reachable state.
C15_InvalidPrice ==
    (Checked /\ arg \in NonFinite) => (ev = "InvalidPrice" /\ Engine = PreE)

\* C15 as amended: a non-finite tick is not rejected but processed like any
\* tick.  NaN crosses no take-profit and no trigger: it returns none and
\* changes nothing when step <= maxSteps, and returns stopped with a full
\* reset when step > maxSteps.  +infinity crosses the take-profit of every
\* buy position and the trigger of a buy_stop, -infinity those of every sell
\* position and of a sell_stop.
C15_NonFiniteProcessed ==
    /\ (Returned /\ arg = NaN) =>
           IF PreE.current_step > MaxSteps THEN ev = "stopped" /\ Cleared
           ELSE ev = "none" /\ Engine = PreE
    /\ (Returned /\ arg = PosInf) => BeyondAll("buy", "buy_stop")
    /\ (Returned /\ arg = NegInf) => BeyondAll("sell", "sell_stop")

\* A NaN tick on a full ladder (step > maxSteps, positions open): stopped.
C15_Witness ==
    /\ Checked
    /\ arg = NaN
    /\ PreE.current_step > MaxSteps
    /\ Len(PreE.active_positions) >= 2
    /\ ev = "stopped"
    /\ Cleared

Terminal == {"tp_hit", "stopped"}

\* run_bot_loop holds the engine, and where it stands after a terminal
\* event: out of the loop, with the engine cleared.
LoopLeavesOnTerminal ==
    /\ (pc # "api" /\ Checked /\ ev \in Terminal) => pc = "ended"
    /\ pc = "ended" => (Cleared /\ Checked /\ ev \in Terminal)

\* C16: a cycle is cleared once per terminal event and never restarts by
\* itself.  Once the engine has no positions, no pending order and step 0
\* it stays so through every step that is not an explicit start
\* (start_cycle, or run_bot_loop building its engine); run_bot_loop leaves
\* its loop on the first tp_hit or stopped and does nothing afterwards.
C16_NoAutoRestart ==
    /\ []LoopLeavesOnTerminal
    /\ [][(Cleared /\ op' \notin {"start_cycle", "run_bot_loop"}) => Cleared']_vars
    /\ [][pc = "ended" => pc' = "ended"]_vars

\* run_bot_loop out of its loop after the safety stop of a full ladder.
C16_Witness ==
    /\ pc = "ended"
    /\ ev = "stopped"
    /\ pre.fills = MaxSteps
    /\ Cleared

\* C17: on the simulation path of run_bot_loop the engine holds an active
\* cycle when the main loop is entered: one buy position at start_price and
\* one pending sell_stop at start_price - gap with step 1.
C17_SimLoopStartsCycle ==
    (op = "run_bot_loop" /\ pc = "loop" /\ ~use_mt5_mode) =>
        /\ active_positions =
               <<[side |-> "buy", entry |-> arg, lot |-> BaseLot,
                  tp |-> arg + TpPoints]>>
        /\ pending_orders =
               <<[type |-> "sell_stop", price |-> arg - Gap,
                  lot |-> 2 * BaseLot, tp |-> arg - Gap - TpPoints,
                  step |-> 1]>>

\* The level and take-profit a buy (TRUE) or a sell (FALSE) must have in a
\* cycle anchored at base_price.
AtLevel(isBuy, level, tp) ==
    IF isBuy
    THEN level = base_price /\ tp = base_price + TpPoints
    ELSE level = base_price - Gap /\ tp = base_price - Gap - TpPoints

====
